---- MODULE Spec2Model ----
(***************************************************************************)
(* Model of the LiteLLM proxy server (src/server.py): the FastAPI routes   *)
(* GET /, GET /v1/models, POST /v1/chat/completions and its alias          *)
(* POST /chat/completions, with the pydantic request schema, the           *)
(* parameter set handed to litellm.completion and the responses sent.      *)
(*                                                                         *)
(* Floats are kept in tenths (0.7 is 7); a string that the code builds by  *)
(* concatenation is a sequence of words.                                   *)
(***************************************************************************)
EXTENDS Naturals, Sequences, FiniteSets

VARIABLES conns

vars == <<conns>>

\* Number of connections the server handles at the same time.
MaxRequests == 2
\* Longest messages array a caller sends.
MaxMessages == 2

ConnIds == 1..MaxRequests

(***************************************************************************)
(* JSON values of a request body, and the Python values pydantic makes of  *)
(* them.  Every value is a tagged record.                                  *)
(***************************************************************************)
JNull == [k |-> "null"]
JStr(s) == [k |-> "str", s |-> s]
JInt(n) == [k |-> "int", n |-> n]
JFloat(t) == [k |-> "float", n |-> t]
JBool(b) == [k |-> "bool", b |-> b]
JList(l) == [k |-> "list", l |-> l]
JObj(o) == [k |-> "obj", o |-> o]

PyNone == [k |-> "None"]
PyStr(s) == [k |-> "str", s |-> s]
PyInt(n) == [k |-> "int", n |-> n]
PyFloat(t) == [k |-> "float", n |-> t]
PyBool(b) == [k |-> "bool", b |-> b]
PyList(l) == [k |-> "list", l |-> l]

(***************************************************************************)
(* class Message(BaseModel): role: str; content: str                       *)
(***************************************************************************)
MessageFields == {"role", "content"}

\* Validation errors of one element of the messages array, at index i.
MessageErrors(j, i) ==
    IF j.k # "obj"
    THEN {<<"body", "messages", i, "", "model_type">>}
    ELSE {<<"body", "messages", i, f, "missing">> :
              f \in {g \in MessageFields : g \notin DOMAIN j.o}}
         \cup
         {<<"body", "messages", i, f, "string_type">> :
              f \in {g \in MessageFields : g \in DOMAIN j.o /\ j.o[g].k # "str"}}

\* The Message object pydantic builds from a valid element.
Message(j) == [cls |-> "Message", role |-> j.o.role.s, content |-> j.o.content.s]

(***************************************************************************)
(* class ChatCompletionRequest(BaseModel)                                  *)
(***************************************************************************)
RequestFields ==
    {"model", "messages", "temperature", "max_tokens", "top_p",
     "frequency_penalty", "presence_penalty", "stop", "stream"}

\* The annotation of each field: its type, and whether it is Optional[...].
FieldType ==
    [model |-> "str", messages |-> "list_message", temperature |-> "float",
     max_tokens |-> "int", top_p |-> "float", frequency_penalty |-> "float",
     presence_penalty |-> "float", stop |-> "list_str", stream |-> "bool"]

OptionalFields ==
    {"temperature", "max_tokens", "top_p", "frequency_penalty",
     "presence_penalty", "stop", "stream"}

\* Fields without a default must be present in the body.
RequiredFields == {"messages"}

\* FieldDefault with another default for top_p.
FieldDefault_TopP ==
    [model |-> PyStr("groq/llama-3.3-70b-versatile"),
     messages |-> PyNone,
     temperature |-> PyFloat(7),
     max_tokens |-> PyNone,
     top_p |-> PyFloat(9),
     frequency_penalty |-> PyFloat(0),
     presence_penalty |-> PyFloat(0),
     stop |-> PyNone,
     stream |-> PyBool(FALSE)]

FieldDefault ==
    [model |-> PyStr("groq/llama-3.3-70b-versatile"),
     messages |-> PyNone,
     temperature |-> PyFloat(7),
     max_tokens |-> PyNone,
     top_p |-> PyFloat(10),
     frequency_penalty |-> PyFloat(0),
     presence_penalty |-> PyFloat(0),
     stop |-> PyNone,
     stream |-> PyBool(FALSE)]

\* Whether the JSON value j is accepted for a field of type t.
TypeAccepts(t, j) ==
    CASE t = "str" -> j.k = "str"
      [] t = "float" -> j.k \in {"float", "int"}
      [] t = "int" -> j.k = "int"
      [] t = "bool" -> j.k = "bool"
      [] t = "list_str" ->
            j.k = "list" /\ \A i \in 1..Len(j.l) : j.l[i].k = "str"
      [] t = "list_message" ->
            j.k = "list" /\ \A i \in 1..Len(j.l) : MessageErrors(j.l[i], i) = {}

\* The Python value of an accepted JSON value.
Coerce(t, j) ==
    CASE t = "str" -> PyStr(j.s)
      [] t = "float" -> IF j.k = "int" THEN PyFloat(10 * j.n) ELSE PyFloat(j.n)
      [] t = "int" -> PyInt(j.n)
      [] t = "bool" -> PyBool(j.b)
      [] t = "list_str" -> PyList([i \in 1..Len(j.l) |-> j.l[i].s])
      [] t = "list_message" -> PyList([i \in 1..Len(j.l) |-> Message(j.l[i])])

\* Validation errors of one field of the body.
FieldErrors(body, f) ==
    IF f \notin DOMAIN body
    THEN IF f \in RequiredFields THEN {<<"body", f, 0, "", "missing">>} ELSE {}
    ELSE IF body[f].k = "null"
    THEN IF f \in OptionalFields THEN {} ELSE {<<"body", f, 0, "", "type_error">>}
    ELSE IF FieldType[f] = "list_message" /\ body[f].k = "list"
    THEN UNION {MessageErrors(body[f].l[i], i) : i \in 1..Len(body[f].l)}
    ELSE IF TypeAccepts(FieldType[f], body[f]) THEN {}
    ELSE {<<"body", f, 0, "", "type_error">>}

\* All validation errors of a body; the body is valid when there is none.
ValidationErrors(body) == UNION {FieldErrors(body, f) : f \in RequestFields}

\* The ChatCompletionRequest object pydantic builds from a valid body.
ChatCompletionRequest(body) ==
    [f \in RequestFields |->
        IF f \notin DOMAIN body THEN FieldDefault[f]
        ELSE IF body[f].k = "null" THEN PyNone
        ELSE Coerce(FieldType[f], body[f])]

(***************************************************************************)
(* What litellm.completion can do with a call: return a result object or   *)
(* raise.  Both are outside the repository; the handler treats the result  *)
(* as opaque and an exception through str(e) only.                         *)
(***************************************************************************)
Results ==
    {[id |-> "chatcmpl-1", object |-> "chat.completion", content |-> "Why did the chicken"],
     [error |-> "rate_limit_exceeded", status_code |-> 429]}

\* Exception subclasses litellm raises, with the words of their message.
Exceptions ==
    {[cls |-> "AuthenticationError", message |-> <<"Invalid", "API", "Key">>],
     [cls |-> "RateLimitError", message |-> <<"Rate", "limit", "reached">>],
     [cls |-> "Timeout", message |-> <<>>]}

\* str(e)
str(e) == e.message

\* HTTPException(status_code=..., detail=...), as FastAPI answers it.
HTTPException(status_code, detail) ==
    [status |-> status_code, body |-> [k |-> "detail", detail |-> detail]]

\* RequestValidationError answered as the handler's except clause would.
RequestValidationError_As500(errors) ==
    HTTPException(500, <<"Error", "processing", "request:", "validation", "error">>)

\* FastAPI's answer to a body that fails the handler's parameter annotation.
RequestValidationError(errors) ==
    [status |-> 422, body |-> [k |-> "validation", errors |-> errors]]

\* FastAPI's answer when a handler returns an object.
JSONResponse(content) == [status |-> 200, body |-> content]

(***************************************************************************)
(* A connection: where its request stands, what was asked, the parameter   *)
(* set of the last litellm.completion call made for it, the number of      *)
(* such calls, how the call ended, and the responses sent.                 *)
(***************************************************************************)
NoBody == [none |-> JNull]
NoParams == [unset |-> PyNone]
NoOutcome == [k |-> "none"]

IdleConn ==
    [pc |-> "idle", route |-> "", body |-> NoBody, params |-> NoParams,
     calls |-> 0, outcome |-> NoOutcome, responses |-> <<>>]

Respond(c, response) ==
    [c EXCEPT !.pc = "done", !.responses = Append(@, response)]

(***************************************************************************)
(* GET / and GET /v1/models                                                *)
(***************************************************************************)
root == [k |-> "root", message |-> "LiteLLM Proxy Server is running"]

ModelEntry(id) ==
    [id |-> id, object |-> "model", created |-> 1234567890, owned_by |-> "groq"]

\* list_models with one identifier pasted twice.
list_models_Dup ==
    [k |-> "models",
     object |-> "list",
     data |-> <<ModelEntry("groq/llama-3.3-70b-versatile"),
                ModelEntry("groq/llama-3.1-8b-instant"),
                ModelEntry("groq/deepseek-r1-distill-llama-70b"),
                ModelEntry("groq/meta-llama/llama-4-scout-17b-16e-instruct"),
                ModelEntry("groq/meta-llama/llama-4-scout-17b-16e-instruct")>>]

list_models ==
    [k |-> "models",
     object |-> "list",
     data |-> <<ModelEntry("groq/llama-3.3-70b-versatile"),
                ModelEntry("groq/llama-3.1-8b-instant"),
                ModelEntry("groq/deepseek-r1-distill-llama-70b"),
                ModelEntry("groq/meta-llama/llama-4-maverick-17b-128e-instruct"),
                ModelEntry("groq/meta-llama/llama-4-scout-17b-16e-instruct")>>]

(***************************************************************************)
(* POST /v1/chat/completions                                               *)
(***************************************************************************)
\* [{"role": msg.role, "content": msg.content} for msg in request.messages]
MessageDicts(msgs) ==
    [i \in 1..Len(msgs) |-> [role |-> msgs[i].role, content |-> msgs[i].content]]

\* The dict built from the request's fields.
litellm_params(request) ==
    [model |-> request.model,
     messages |-> PyList(MessageDicts(request.messages.l)),
     temperature |-> request.temperature,
     max_tokens |-> request.max_tokens,
     top_p |-> request.top_p,
     frequency_penalty |-> request.frequency_penalty,
     presence_penalty |-> request.presence_penalty,
     stop |-> request.stop,
     stream |-> request.stream]

\* RemoveNone that removes nothing.
RemoveNone_KeepAll(params) == params

\* {k: v for k, v in litellm_params.items() if v is not None}
RemoveNone(params) ==
    [key \in {x \in DOMAIN params : params[x] # PyNone} |-> params[key]]

\* TryBody with litellm_params kept in a module-level dict: a request that
\* enters while another is waiting for litellm reads the other's dict.
TryBody_Shared(c) ==
    LET request == ChatCompletionRequest(c.body)
        waiting == {j \in ConnIds : conns[j].pc = "calling"}
    IN [c EXCEPT !.pc = "calling",
                 !.params = IF waiting = {}
                            THEN RemoveNone(litellm_params(request))
                            ELSE conns[CHOOSE j \in waiting : TRUE].params,
                 !.calls = @ + 1]

\* The try block up to the call: litellm.completion(**litellm_params) is
\* invoked and the handler waits for it.
TryBody(c) ==
    LET request == ChatCompletionRequest(c.body)
    IN [c EXCEPT !.pc = "calling",
                 !.params = RemoveNone(litellm_params(request)),
                 !.calls = @ + 1]

\* ReturnResponse that takes the HTTP status from the result when it has one.
ReturnResponse_Remap(c, response) ==
    Respond([c EXCEPT !.outcome = [k |-> "return", r |-> response]],
            [status |-> IF "status_code" \in DOMAIN response
                        THEN response.status_code ELSE 200,
             body |-> [k |-> "result", r |-> response]])

\* return response
ReturnResponse(c, response) ==
    Respond([c EXCEPT !.outcome = [k |-> "return", r |-> response]],
            JSONResponse([k |-> "result", r |-> response]))

\* ExceptHandler whose detail leaves out str(e).
ExceptHandler_NoText(c, e) ==
    Respond([c EXCEPT !.outcome = [k |-> "raise", e |-> e]],
            HTTPException(500, <<"Error", "processing", "request">>))

\* ExceptHandler that calls litellm.completion once more before giving up.
ExceptHandler_Retry(c, e) ==
    IF c.calls < 2
    THEN [c EXCEPT !.calls = @ + 1]
    ELSE Respond([c EXCEPT !.outcome = [k |-> "raise", e |-> e]],
                 HTTPException(500, <<"Error", "processing", "request:">> \o str(e)))

\* except Exception as e: raise HTTPException(status_code=500, detail=f"...")
ExceptHandler(c, e) ==
    Respond([c EXCEPT !.outcome = [k |-> "raise", e |-> e]],
            HTTPException(500, <<"Error", "processing", "request:">> \o str(e)))

chat_completions(c, ev) ==
    CASE ev.k = "enter" -> TryBody(c)
      [] ev.k = "return" -> ReturnResponse(c, ev.r)
      [] ev.k = "raise" -> ExceptHandler(c, ev.e)

\* chat_completions_simple with a copy of the handler that forwards the
\* dict without removing the None values.
chat_completions_simple_Copy(c, ev) ==
    CASE ev.k = "enter" ->
            [c EXCEPT !.pc = "calling",
                      !.params = litellm_params(ChatCompletionRequest(c.body)),
                      !.calls = @ + 1]
      [] ev.k = "return" -> ReturnResponse(c, ev.r)
      [] ev.k = "raise" -> ExceptHandler(c, ev.e)

\* POST /chat/completions: return await chat_completions(request)
chat_completions_simple(c, ev) == chat_completions(c, ev)

ChatRoutes == {"/v1/chat/completions", "/chat/completions"}

Handler(route, c, ev) ==
    IF route = "/v1/chat/completions"
    THEN chat_completions(c, ev)
    ELSE chat_completions_simple(c, ev)

(***************************************************************************)
(* Request bodies callers send.                                            *)
(***************************************************************************)
UserMessage == JObj([role |-> JStr("user"), content |-> JStr("Hello! Can you tell me a joke?")])
NoContentMessage == JObj([role |-> JStr("user")])
NoRoleMessage == JObj([content |-> JStr("Hello from curl!")])

RECURSIVE SeqsUpTo(_, _)
SeqsUpTo(S, n) ==
    IF n = 0 THEN {<<>>}
    ELSE LET shorter == SeqsUpTo(S, n - 1)
         IN shorter \cup {Append(s, x) : s \in {t \in shorter : Len(t) = n - 1}, x \in S}

MessageArrays == SeqsUpTo({UserMessage}, MaxMessages)

\* The payload of test_with_requests.
ExamplePayload ==
    [model |-> JStr("groq/llama-3.3-70b-versatile"),
     messages |-> JList(<<UserMessage>>),
     temperature |-> JFloat(7),
     max_tokens |-> JInt(150)]

Bodies ==
    {[messages |-> JList(m)] : m \in MessageArrays}
    \cup
    {ExamplePayload,
     [messages |-> JList(<<UserMessage>>), temperature |-> JNull, max_tokens |-> JNull,
      top_p |-> JNull, frequency_penalty |-> JNull, presence_penalty |-> JNull,
      stop |-> JNull, stream |-> JNull],
     [model |-> JStr("groq/llama-3.1-8b-instant"), messages |-> JList(<<UserMessage>>),
      temperature |-> JInt(1), stop |-> JList(<<JStr("END")>>), stream |-> JBool(TRUE)],
     [model |-> JStr("groq/llama-3.3-70b-versatile")],
     [model |-> JNull, messages |-> JList(<<UserMessage>>)],
     [messages |-> JList(<<NoRoleMessage>>)],
     [messages |-> JList(<<UserMessage, NoContentMessage>>)],
     [messages |-> JList(<<UserMessage>>), max_tokens |-> JStr("many")]}

\* The bodies FastAPI accepts as a ChatCompletionRequest, and the others.
ValidBodies == {body \in Bodies : ValidationErrors(body) = {}}
InvalidBodies == Bodies \ ValidBodies

(***************************************************************************)
(* The server                                                              *)
(***************************************************************************)
Init == conns = [i \in ConnIds |-> IdleConn]

\* GET /
Root(i) ==
    /\ conns[i].pc = "idle"
    /\ conns' = [conns EXCEPT ![i] = Respond([@ EXCEPT !.route = "/"], JSONResponse(root))]

\* GET /v1/models
ListModels(i) ==
    /\ conns[i].pc = "idle"
    /\ conns' = [conns EXCEPT ![i] =
                    Respond([@ EXCEPT !.route = "/v1/models"], JSONResponse(list_models))]

\* A POST whose body does not validate as ChatCompletionRequest is answered
\* by FastAPI; the handler is not called.
PostInvalid(i, route, body) ==
    /\ conns[i].pc = "idle"
    /\ body \in InvalidBodies
    /\ conns' = [conns EXCEPT ![i] =
                    Respond([@ EXCEPT !.route = route, !.body = body],
                            RequestValidationError(ValidationErrors(body)))]

\* A POST with a valid body: the handler runs up to the litellm call.
PostChat(i, route, body) ==
    /\ conns[i].pc = "idle"
    /\ body \in ValidBodies
    /\ conns' = [conns EXCEPT ![i] =
                    Handler(route, [@ EXCEPT !.route = route, !.body = body],
                            [k |-> "enter"])]

\* litellm.completion returns.
CompletionReturns(i, r) ==
    /\ conns[i].pc = "calling"
    /\ conns' = [conns EXCEPT ![i] = Handler(@.route, @, [k |-> "return", r |-> r])]

\* litellm.completion raises.
CompletionRaises(i, e) ==
    /\ conns[i].pc = "calling"
    /\ conns' = [conns EXCEPT ![i] = Handler(@.route, @, [k |-> "raise", e |-> e])]

\* The response has been sent; the server is ready for another request.
Close(i) ==
    /\ conns[i].pc = "done"
    /\ conns' = [conns EXCEPT ![i] = IdleConn]

Next ==
    \E i \in ConnIds :
        \/ Root(i)
        \/ ListModels(i)
        \/ \E route \in ChatRoutes, body \in InvalidBodies : PostInvalid(i, route, body)
        \/ \E route \in ChatRoutes, body \in ValidBodies : PostChat(i, route, body)
        \/ \E r \in Results : CompletionReturns(i, r)
        \/ \E e \in Exceptions : CompletionRaises(i, e)
        \/ Close(i)

Spec == Init /\ [][Next]_vars

(***************************************************************************)
(* Vocabulary of the properties                                            *)
(***************************************************************************)
\* sub occurs in s as a run of consecutive words.
Contains(s, sub) ==
    \E start \in 0..(Len(s) - Len(sub)) :
        \A n \in 1..Len(sub) : s[start + n] = sub[n]

IsChat(c) == c.route \in ChatRoutes

\* The request was handed to litellm.completion.
Forwarded(c) == IsChat(c) /\ c.calls > 0

\* The body's messages field is an array, of the given kind.
HasMessages(body) == "messages" \in DOMAIN body /\ body.messages.k = "list"
EmptyMessages(body) == HasMessages(body) /\ Len(body.messages.l) = 0
NonEmptyMessages(body) == HasMessages(body) /\ Len(body.messages.l) > 0

\* messages is missing, or one of its elements lacks role or content.
SchemaFailure(body) ==
    \/ "messages" \notin DOMAIN body
    \/ /\ HasMessages(body)
       /\ \E n \in 1..Len(body.messages.l) :
              \E f \in {"role", "content"} : f \notin DOMAIN body.messages.l[n].o

\* The forwarded value v is the JSON value j the caller supplied.
Carries(j, v) ==
    CASE j.k = "str" -> v = PyStr(j.s)
      [] j.k = "int" -> v = PyInt(j.n) \/ v = PyFloat(10 * j.n)
      [] j.k = "float" -> v = PyFloat(j.n)
      [] j.k = "bool" -> v = PyBool(j.b)
      [] j.k = "list" ->
            /\ v.k = "list"
            /\ Len(v.l) = Len(j.l)
            /\ \A n \in 1..Len(j.l) :
                  IF j.l[n].k = "obj"
                  THEN /\ DOMAIN v.l[n] = {"role", "content"}
                       /\ v.l[n].role = j.l[n].o.role.s
                       /\ v.l[n].content = j.l[n].o.content.s
                  ELSE v.l[n] = j.l[n].s
      [] OTHER -> FALSE

\* The default the schema documents for a field, None when it has none.
DocumentedDefault ==
    [model |-> PyStr("groq/llama-3.3-70b-versatile"), messages |-> PyNone,
     temperature |-> PyFloat(7), max_tokens |-> PyNone, top_p |-> PyFloat(10),
     frequency_penalty |-> PyFloat(0), presence_penalty |-> PyFloat(0),
     stop |-> PyNone, stream |-> PyBool(FALSE)]

Supplied(body) == {f \in DOMAIN body : body[f].k # "null"}
Defaulted(body) ==
    {f \in RequestFields : f \notin DOMAIN body /\ DocumentedDefault[f] # PyNone}

(***************************************************************************)
(* C1: when litellm.completion raises, the request ends with one HTTP 500  *)
(* response whose detail contains str(e); the exception never leaves the   *)
(* handler in any other form.                                              *)
(***************************************************************************)
C1_UpstreamFailureIs500 ==
    \A i \in ConnIds :
        LET c == conns[i] IN
        (IsChat(c) /\ c.outcome.k = "raise") =>
            /\ c.pc = "done"
            /\ Len(c.responses) = 1
            /\ c.responses[1].status = 500
            /\ c.responses[1].body.k = "detail"
            /\ Contains(c.responses[1].body.detail, c.outcome.e.message)

C1_Witness ==
    \E i \in ConnIds :
        /\ conns[i].outcome.k = "raise"
        /\ conns[i].outcome.e.cls = "RateLimitError"
        /\ conns[i].pc = "done"
        /\ Len(conns[i].responses) = 1

(***************************************************************************)
(* C2: for a valid request with a non-empty messages array, the forwarded  *)
(* parameter set has exactly the supplied and the defaulted fields, each   *)
(* with the supplied or default value, and no key whose value is None.     *)
(***************************************************************************)
C2_NoUnsetKeyForwarded ==
    \A i \in ConnIds :
        LET c == conns[i] IN
        (Forwarded(c) /\ NonEmptyMessages(c.body)) =>
            /\ \A key \in DOMAIN c.params : c.params[key] # PyNone
            /\ DOMAIN c.params = Supplied(c.body) \cup Defaulted(c.body)
            /\ \A f \in Supplied(c.body) : Carries(c.body[f], c.params[f])
            /\ \A f \in Defaulted(c.body) : c.params[f] = DocumentedDefault[f]
            /\ "max_tokens" \notin DOMAIN c.body => "max_tokens" \notin DOMAIN c.params
            /\ "stop" \notin DOMAIN c.body => "stop" \notin DOMAIN c.params

C2_Witness ==
    \E i \in ConnIds :
        /\ Forwarded(conns[i])
        /\ NonEmptyMessages(conns[i].body)
        /\ "temperature" \in DOMAIN conns[i].body
        /\ conns[i].body.temperature = JNull
        /\ "temperature" \notin DOMAIN conns[i].params

(***************************************************************************)
(* C3: a request whose messages array is empty is rejected by the server:  *)
(* litellm.completion is never invoked for it.                             *)
(***************************************************************************)
C3_EmptyMessagesRejected ==
    \A i \in ConnIds :
        LET c == conns[i] IN
        (IsChat(c) /\ EmptyMessages(c.body)) =>
            /\ c.calls = 0
            /\ c.outcome.k = "none"

(***************************************************************************)
(* C4 as stated: a request that fails schema validation is answered with   *)
(* HTTP 500 and a detail string, like an upstream failure.                 *)
(***************************************************************************)
C4_SchemaFailureIs500 ==
    \A i \in ConnIds :
        LET c == conns[i] IN
        (IsChat(c) /\ SchemaFailure(c.body) /\ c.pc = "done") =>
            /\ c.responses[1].status = 500
            /\ c.responses[1].body.k = "detail"

(***************************************************************************)
(* C4 amended: a request that fails schema validation is answered before   *)
(* the handler runs, with HTTP 422 and a list of validation errors; no     *)
(* litellm call is made for it and it never gets the 500 of an upstream    *)
(* failure.                                                                *)
(***************************************************************************)
C4_SchemaFailureIs422 ==
    \A i \in ConnIds :
        LET c == conns[i] IN
        (IsChat(c) /\ SchemaFailure(c.body)) =>
            /\ c.pc = "done"
            /\ c.calls = 0
            /\ c.outcome.k = "none"
            /\ Len(c.responses) = 1
            /\ c.responses[1].status = 422
            /\ c.responses[1].body.k = "validation"
            /\ c.responses[1].body.errors # {}

C4_Witness ==
    \E i, j \in ConnIds :
        /\ IsChat(conns[i]) /\ "messages" \notin DOMAIN conns[i].body
        /\ conns[i].pc = "done"
        /\ IsChat(conns[j]) /\ HasMessages(conns[j].body)
        /\ SchemaFailure(conns[j].body)
        /\ conns[j].pc = "done"

(***************************************************************************)
(* C5: the two chat routes are equivalent: given the same body they pass   *)
(* the same parameter set to litellm.completion, and given the same        *)
(* outcome of that call they send the same response.                       *)
(***************************************************************************)
C5_AliasEquivalence ==
    \A i, j \in ConnIds :
        LET c == conns[i]
            d == conns[j]
        IN (/\ c.route = "/v1/chat/completions"
            /\ d.route = "/chat/completions"
            /\ c.body = d.body) =>
               /\ (c.calls > 0 /\ d.calls > 0) => c.params = d.params
               /\ (c.pc = "done" /\ d.pc = "done") => c.calls = d.calls
               /\ (c.pc = "done" /\ d.pc = "done" /\ c.outcome = d.outcome) =>
                      c.responses = d.responses

C5_Witness ==
    \E i, j \in ConnIds :
        /\ conns[i].route = "/v1/chat/completions"
        /\ conns[j].route = "/chat/completions"
        /\ conns[i].body = conns[j].body
        /\ "stop" \in DOMAIN conns[i].body
        /\ conns[i].pc = "done" /\ conns[j].pc = "done"
        /\ conns[i].outcome.k = "return"
        /\ conns[i].outcome = conns[j].outcome

(***************************************************************************)
(* C6: the example payload (model, one user message, temperature 0.7,      *)
(* max_tokens 150) is forwarded with those values unchanged, the           *)
(* documented defaults for top_p, frequency_penalty, presence_penalty and  *)
(* stream, and no stop key; every repetition forwards the same set.        *)
(***************************************************************************)
C6_ExampleForwarded ==
    \A i \in ConnIds :
        LET c == conns[i] IN
        (Forwarded(c) /\ c.body = ExamplePayload) =>
            c.params =
                [model |-> PyStr("groq/llama-3.3-70b-versatile"),
                 messages |-> PyList(<<[role |-> "user",
                                        content |-> "Hello! Can you tell me a joke?"]>>),
                 temperature |-> PyFloat(7),
                 max_tokens |-> PyInt(150),
                 top_p |-> PyFloat(10),
                 frequency_penalty |-> PyFloat(0),
                 presence_penalty |-> PyFloat(0),
                 stream |-> PyBool(FALSE)]

C6_Witness ==
    \A i \in ConnIds : Forwarded(conns[i]) /\ conns[i].body = ExamplePayload

(***************************************************************************)
(* C7: when litellm.completion returns, the response carries that very     *)
(* object, with status 200 whatever the object holds.                      *)
(***************************************************************************)
C7_ResultEchoed ==
    \A i \in ConnIds :
        LET c == conns[i] IN
        (IsChat(c) /\ c.outcome.k = "return") =>
            /\ c.pc = "done"
            /\ Len(c.responses) = 1
            /\ c.responses[1].status = 200
            /\ c.responses[1].body.k = "result"
            /\ c.responses[1].body.r = c.outcome.r

C7_Witness ==
    \E i \in ConnIds :
        /\ conns[i].outcome.k = "return"
        /\ "status_code" \in DOMAIN conns[i].outcome.r
        /\ conns[i].pc = "done"

(***************************************************************************)
(* C8: every answer of GET /v1/models is the same catalog: object "list"   *)
(* and five entries with distinct ids, each with object "model", the same  *)
(* created value and owned_by "groq", whatever the other connections did.  *)
(***************************************************************************)
C8_FixedCatalog ==
    \A i \in ConnIds :
        LET c == conns[i] IN
        (c.route = "/v1/models" /\ c.pc = "done") =>
            /\ Len(c.responses) = 1
            /\ c.responses[1].status = 200
            /\ LET b == c.responses[1].body IN
               /\ b.object = "list"
               /\ Len(b.data) = 5
               /\ Cardinality({b.data[n].id : n \in 1..Len(b.data)}) = 5
               /\ \A n \in 1..Len(b.data) :
                      /\ b.data[n].object = "model"
                      /\ b.data[n].created = b.data[1].created
                      /\ b.data[n].owned_by = "groq"
            /\ \A j \in ConnIds :
                   (conns[j].route = "/v1/models" /\ conns[j].pc = "done") =>
                       conns[j].responses = c.responses

C8_Witness ==
    \E i, j \in ConnIds :
        /\ conns[i].route = "/v1/models" /\ conns[i].pc = "done"
        /\ conns[j].outcome.k = "raise"

C10_NoRetry ==
    \A i \in ConnIds :
        LET c == conns[i] IN
        IsChat(c) =>
            /\ c.calls <= 1
            /\ Len(c.responses) <= 1
            /\ (c.pc = "calling") => (c.calls = 1 /\ c.responses = <<>>)
            /\ (c.outcome.k # "none") =>
                   /\ c.pc = "done"
                   /\ c.calls = 1
                   /\ Len(c.responses) = 1
                   /\ c.responses[1].status = IF c.outcome.k = "return" THEN 200 ELSE 500

C10_Witness ==
    \E i \in ConnIds :
        /\ conns[i].outcome.k = "raise"
        /\ conns[i].outcome.e.cls = "Timeout"
        /\ conns[i].pc = "done"
        /\ conns[i].calls = 1

====
